---- MODULE Spec2Model ----
(***************************************************************************)
(* Model of the Dash callback process_files (src/app.py) of the KMZ/KML    *)
(* processor: pre-run validation, clearing of the two working directories, *)
(* the per-file loop (store, convert, sanitize, extract, read coordinates),*)
(* the merge and the download bundle.  The five helpers imported from the  *)
(* module `processor` are modelled from their specification.               *)
(***************************************************************************)
EXTENDS Integers, Sequences, FiniteSets, TLC

\* ------------------------------------------------------------------ bounds
MaxFiles == 2        \* longest batch of uploads of one invocation
MaxRuns == 2         \* accepted runs in one behaviour
ConcMaxFiles == 1    \* longest batch when two invocations overlap

\* --------------------------------------------------------------- constants
START_COUNT == 30000

Procs == {1, 2}

\* An optional string: Python's None, or a string.
None == [some |-> FALSE, s |-> <<>>]
Str(s) == [some |-> TRUE, s |-> s]

\* The absence of a UUID in a file name.
NoUuid == <<>>

\* ------------------------------------------------------------------ strings
\* A string is a sequence of one-character strings.
Zagreb == <<"Z", "a", "g", "r", "e", "b">>

CITIES == {Zagreb}

IsSpace(c) == c = " "

RECURSIVE LStrip(_)
LStrip(s) == IF s = <<>> THEN <<>>
             ELSE IF IsSpace(Head(s)) THEN LStrip(Tail(s)) ELSE s

RECURSIVE RStrip(_)
RStrip(s) == IF s = <<>> THEN <<>>
             ELSE IF IsSpace(s[Len(s)]) THEN RStrip(SubSeq(s, 1, Len(s) - 1)) ELSE s

\* str.strip()
Strip(s) == RStrip(LStrip(s))

\* str.replace(" ", "_")
ReplaceSpaces(s) == [i \in 1..Len(s) |-> IF s[i] = " " THEN "_" ELSE s[i]]

\* Python truthiness of an optional string: None and "" are falsy.
Truthy(o) == o.some /\ o.s # <<>>

\* ------------------------------------------------------------- file names
\* A file name: its stem, its extension as typed, and the UUID embedded in
\* the stem (NoUuid when the name holds none).
FileName(stem, ext, uuid) == [stem |-> stem, ext |-> ext, uuid |-> uuid]

\* str.lower() on the extensions that occur
Lower(ext) == CASE ext = ".KML" -> ".kml"
                [] ext = ".KMZ" -> ".kmz"
                [] OTHER -> ext

\* os.path.splitext(filename)[1].lower()
ExtOf(filename) == Lower(filename.ext)

\* re.search of the UUID pattern in the file name
UuidMatch(filename) == filename.uuid

MERGED_NAME == FileName("merged_output", ".kml", NoUuid)

\* -------------------------------------------------------------- documents
\* Numeric coordinate fields and their float values, in hundredths.
FloatOf == [f \in {"15.97", "45.80", "15.98", "45.81", "0"} |->
              CASE f = "15.97" -> 1597
                [] f = "45.80" -> 4580
                [] f = "15.98" -> 1598
                [] f = "45.81" -> 4581
                [] OTHER -> 0]

IsNumeric(f) == f \in DOMAIN FloatOf

\* A coordinate group is the sequence of its comma-separated fields; the text
\* of a coordinates element is NoText (the element has no text) or the
\* sequence of its whitespace-separated groups (empty when the text is blank).
NoText == [has |-> FALSE, groups |-> <<>>]
Text(groups) == [has |-> TRUE, groups |-> groups]

G1 == <<"15.97", "45.80", "0">>
G2 == <<"15.98", "45.81", "0">>
GShort == <<"15.97">>
GWord == <<"x", "y">>

\* A document: well-formedness, whether it holds CDATA-wrapped markup, and
\* its placemarks, each the sequence of the coordinates texts beneath it.
Doc(wf, cdata, pms) == [wf |-> wf, cdata |-> cdata, pms |-> pms]

DocTwo == Doc(TRUE, TRUE, << <<Text(<<G1, G2>>)>> >>)
DocEmptyFirst == Doc(TRUE, FALSE, << <<NoText>>, <<Text(<<G1>>)>> >>)
DocShort == Doc(TRUE, FALSE, << <<Text(<<GShort, G2>>), Text(<<>>)>> >>)
DocWord == Doc(TRUE, FALSE, << <<Text(<<GWord, G1>>)>> >>)
DocBad == Doc(FALSE, FALSE, <<>>)

\* An upload: its file name and its decoded bytes, which are a document or,
\* for a container, the sequence of the container's members.
Member(name, doc) == [name |-> name, doc |-> doc]
Upload(name, kind, doc, members) ==
    [filename |-> name, kind |-> kind, doc |-> doc, members |-> members]

PlainUpload(name, doc) == Upload(name, "markup", doc, <<>>)
ZipUpload(name, members) == Upload(name, "zip", DocBad, members)

UA == PlainUpload(FileName("a", ".kml", NoUuid), DocTwo)
UB == PlainUpload(FileName("b", ".kml", <<"u", "1">>), DocEmptyFirst)
UC == ZipUpload(FileName("c", ".kmz", NoUuid),
                <<Member(FileName("icon", ".png", NoUuid), DocBad),
                  Member(FileName("doc", ".kml", NoUuid), DocShort)>>)
UD == ZipUpload(FileName("d", ".kmz", NoUuid),
                <<Member(FileName("icon", ".png", NoUuid), DocBad)>>)
UE == PlainUpload(FileName("e", ".kml", NoUuid), DocBad)
UN == PlainUpload(FileName("notes", ".txt", NoUuid), DocBad)
UM == PlainUpload(MERGED_NAME, DocWord)

FilePool == {UA, UB, UC, UD, UE, UN, UM}
ConcPool == {UA, UE, UN}

SeqsUpTo(S, n) == UNION {[1..k -> S] : k \in 0..n}

Batches == SeqsUpTo(FilePool, MaxFiles)
ConcBatches == SeqsUpTo(ConcPool, ConcMaxFiles)

SelectedChoices == {None} \cup {Str(c) : c \in CITIES}
CustomChoices == {None, Str(<<>>), Str(<<" ">>), Str(<<" ", "N", " ", "S", " ">>)}

\* ------------------------------------------------------ working directories
\* A directory maps the names of the files in it to their contents.  A file's
\* content carries two labels that the program never reads: the run that
\* wrote the upload it derives from, and that upload's position in the batch
\* (0 for the merged document).
EmptyDir == [n \in {} |-> n]

Entry(kind, doc, members, run, src) ==
    [kind |-> kind, doc |-> doc, members |-> members, run |-> run, src |-> src]

Put(dir, name, e) ==
    [n \in DOMAIN dir \cup {name} |-> IF n = name THEN e ELSE dir[n]]

Remove(dir, name) == [n \in DOMAIN dir \ {name} |-> dir[n]]

NoPath == FileName("", "", NoUuid)

\* -------------------------------------------- helpers of module `processor`
\* delete_files_in_folder(path): every regular file directly in the folder
\* is deleted; the working folders hold nothing but regular files.
delete_files_in_folder(dir) == EmptyDir

\* The first member of a container whose name ends in .kml, 0 when none does.
RECURSIVE FirstMarkupMember(_, _)
FirstMarkupMember(members, i) ==
    IF i > Len(members) THEN 0
    ELSE IF members[i].name.ext = ".kml" THEN i
    ELSE FirstMarkupMember(members, i + 1)

\* extract_kml_from_kmz(kmz_path, output_dir): the markup member is written
\* to the output folder under its own base name and that path is returned;
\* a missing file, a file that is no container, or a container without a
\* markup member (UnsupportedContainer) raises.
extract_kml_from_kmz(kmz, path, kml) ==
    IF path \notin DOMAIN kmz \/ kmz[path].kind # "zip"
    THEN [raised |-> TRUE, path |-> NoPath, kml |-> kml]
    ELSE LET e == kmz[path]
             i == FirstMarkupMember(e.members, 1)
         IN IF i = 0
            THEN [raised |-> TRUE, path |-> NoPath, kml |-> kml]
            ELSE [raised |-> FALSE,
                  path |-> e.members[i].name,
                  kml |-> Put(kml, e.members[i].name,
                              Entry("markup", e.members[i].doc, <<>>, e.run, e.src))]

\* remove_cdata_from_kml(kml_path): the file is rewritten in place with its
\* CDATA wrappers removed and its path is returned; a missing file or a
\* document that cannot be parsed (MalformedMarkup) raises.
remove_cdata_from_kml(kml, path) ==
    IF path \notin DOMAIN kml \/ kml[path].kind # "markup" \/ ~kml[path].doc.wf
    THEN [raised |-> TRUE, path |-> NoPath, kml |-> kml]
    ELSE [raised |-> FALSE,
          path |-> path,
          kml |-> [kml EXCEPT ![path].doc.cdata = FALSE]]

RECURSIVE Flatten(_)
Flatten(ss) == IF ss = <<>> THEN <<>> ELSE Head(ss) \o Flatten(Tail(ss))

\* The coordinates elements of a document, in document order.
Elements(doc) == Flatten(doc.pms)

\* A group yields a tuple when it has at least two numeric fields.
ValidGroup(g) == Len(g) >= 2 /\ IsNumeric(g[1]) /\ IsNumeric(g[2])

TuplesOfText(t) ==
    IF ~t.has THEN <<>>
    ELSE LET good == SelectSeq(t.groups, ValidGroup)
         IN [k \in 1..Len(good) |-> [lon |-> FloatOf[good[k][1]],
                                     lat |-> FloatOf[good[k][2]]]]

TuplesOf(doc) ==
    LET es == Elements(doc)
    IN Flatten([k \in 1..Len(es) |-> TuplesOfText(es[k])])

\* extract_coordinates_from_kml(path, count, key): one statement per tuple,
\* in document order, numbered from `count`; the next free number is
\* returned.  A missing or unparseable file raises.
extract_coordinates_from_kml(kml, path, counterIn, key) ==
    IF path \notin DOMAIN kml \/ kml[path].kind # "markup" \/ ~kml[path].doc.wf
    THEN [raised |-> TRUE, count |-> counterIn, out |-> <<>>]
    ELSE LET ts == TuplesOf(kml[path].doc)
         IN [raised |-> FALSE,
             count |-> counterIn + Len(ts),
             out |-> [k \in 1..Len(ts) |->
                        [id |-> counterIn + k - 1, key |-> key,
                         lon |-> ts[k].lon, lat |-> ts[k].lat]]]

\* The files of a folder that the merge and the bundle enumerate.
MarkupNames(dir) == {n \in DOMAIN dir : n.ext = ".kml"}

\* The orders in which a folder's files can be listed.
Listings(S) == {o \in [1..Cardinality(S) -> S] : \A n \in S : \E k \in DOMAIN o : o[k] = n}

\* merge_kml_files(dir, output_path, count): the placemarks of every file of
\* the folder that ends in .kml and parses, in listing order, are written as
\* one document to the output path; the counter does not alter the content.
merge_kml_files(kml, listing, outName, finalCounter, run) ==
    LET parsed(n) == kml[n].kind = "markup" /\ kml[n].doc.wf
        pms == Flatten([k \in 1..Len(listing) |->
                          IF parsed(listing[k]) THEN kml[listing[k]].doc.pms ELSE <<>>])
    IN Put(kml, outName, Entry("markup", Doc(TRUE, FALSE, pms), <<>>, run, 0))

\* ------------------------------------------------------------ process_files
VARIABLES
    kmzDir,    \* the files of folder KMZ_DIR
    kmlDir,    \* the files of folder KML_DIR
    frame,     \* per invocation slot: the callback's arguments, locals, position and result
    run        \* the number of accepted runs so far

vars == <<kmzDir, kmlDir, frame, run>>

\* The checks before any processing: no upload, then no city.
CityOf(selected, custom) == IF Truthy(custom) THEN Str(Strip(custom.s)) ELSE selected

Validate(contents, selected, custom) ==
    IF contents = <<>> THEN "EmptyUpload"
    ELSE IF ~Truthy(CityOf(selected, custom)) THEN "NoCity"
    ELSE "ok"

\* Variant: the KML folder is not cleared.
ClearedDirs_KmlKept(kmz, kml) ==
    [kmz |-> delete_files_in_folder(kmz), kml |-> kml]

\* Both folders are cleared once the invocation is accepted.
ClearedDirs(kmz, kml) ==
    [kmz |-> delete_files_in_folder(kmz), kml |-> delete_files_in_folder(kml)]

\* Variant: the folders are cleared before the arguments are validated.
DirsOnEntry_ClearFirst(verdict, kmz, kml) == ClearedDirs(kmz, kml)

\* The folders as the invocation leaves its first ten lines.
DirsOnEntry(verdict, kmz, kml) ==
    IF verdict # "ok" THEN [kmz |-> kmz, kml |-> kml] ELSE ClearedDirs(kmz, kml)

\* Variant: every extension other than .kmz takes the move branch.
ConvertKind_NoSkip(ext) == IF ext = ".kmz" THEN "kmz" ELSE "kml"

\* The branch taken on the lower-cased extension.
ConvertKind(ext) ==
    IF ext = ".kmz" THEN "kmz" ELSE IF ext = ".kml" THEN "kml" ELSE "skip"

\* The grouping key of a file: the UUID in its name, else the city.
WorkingStreetId(filename, city) ==
    IF UuidMatch(filename) # NoUuid THEN UuidMatch(filename) ELSE ReplaceSpaces(city.s)

\* Variant: the value returned by the extraction is dropped.
ThreadCount_Dropped(count, returned) == count

\* count = extract_coordinates_from_kml(cleaned_kml, count, ...)
ThreadCount(count, returned) == returned

\* The counter handed to merge_kml_files.
MergeCounter(count) == count

\* The loop over the groups of one coordinates text: a group of two or more
\* fields is converted with float(), which raises on a field that is no number.
RECURSIVE ScanGroups(_, _, _, _)
ScanGroups(groups, rows, ring, filename) ==
    IF groups = <<>> THEN [ok |-> TRUE, rows |-> rows, ring |-> ring]
    ELSE LET parts == Head(groups)
         IN IF Len(parts) >= 2
            THEN IF IsNumeric(parts[1]) /\ IsNumeric(parts[2])
                 THEN ScanGroups(Tail(groups),
                                 Append(rows, [lat |-> FloatOf[parts[2]],
                                               lon |-> FloatOf[parts[1]],
                                               file |-> filename]),
                                 Append(ring, <<FloatOf[parts[1]], FloatOf[parts[2]]>>),
                                 filename)
                 ELSE [ok |-> FALSE, rows |-> rows, ring |-> ring]
            ELSE ScanGroups(Tail(groups), rows, ring, filename)

\* The loop over the coordinates elements inside the try block: the first
\* exception (text None has no strip(); float() of a word) ends the file,
\* keeping what was appended before it.
RECURSIVE ScanElems(_, _, _, _)
ScanElems(elems, rows, polys, filename) ==
    IF elems = <<>> THEN [rows |-> rows, polys |-> polys]
    ELSE LET e == Head(elems)
         IN IF ~e.has THEN [rows |-> rows, polys |-> polys]
            ELSE LET r == ScanGroups(e.groups, rows, <<>>, filename)
                 IN IF ~r.ok THEN [rows |-> r.rows, polys |-> polys]
                    ELSE ScanElems(Tail(elems), r.rows,
                                   IF r.ring # <<>>
                                   THEN Append(polys, [name |-> filename,
                                                       polygon |-> <<r.ring>>])
                                   ELSE polys,
                                   filename)

\* The rows and polygons after the try block over one cleaned file.
ReadForMapping(kml, path, rows, polys, filename) ==
    IF path \notin DOMAIN kml \/ kml[path].kind # "markup" \/ ~kml[path].doc.wf
    THEN [rows |-> rows, polys |-> polys]
    ELSE ScanElems(Elements(kml[path].doc), rows, polys, filename)

\* An invocation slot that holds no invocation yet.
NoFrame ==
    [pc |-> "idle", result |-> "none",
     batch |-> <<>>, selected |-> None, custom |-> None, city |-> None,
     run |-> 0, idx |-> 0, count |-> 0,
     file_path |-> NoPath, kml_path |-> NoPath, cleaned_kml |-> NoPath,
     sql_output_all |-> <<>>, all_coords |-> <<>>, polygons |-> <<>>,
     calls |-> <<>>, mergeCount |-> -1, mergeInputs |-> {}, merged |-> <<>>,
     bundle |-> EmptyDir, hadStale |-> FALSE]

Init ==
    /\ kmzDir = EmptyDir
    /\ kmlDir = EmptyDir
    /\ frame = [p \in Procs |-> NoFrame]
    /\ run = 0

\* The callback raises: the invocation ends without a result.
Raised(f) == [f EXCEPT !.pc = "done", !.result = "error"]

\* Lines 93-107: validation, clearing, the locals' initial values.
Begin(p, B) ==
    /\ frame[p].pc = "idle"
    /\ \E contents \in B, selected \in SelectedChoices, custom \in CustomChoices :
         LET verdict == Validate(contents, selected, custom)
             dirs == DirsOnEntry(verdict, kmzDir, kmlDir)
             args == [NoFrame EXCEPT !.batch = contents, !.selected = selected,
                                     !.custom = custom]
         IN /\ verdict = "ok" => run < MaxRuns
            /\ kmzDir' = dirs.kmz
            /\ kmlDir' = dirs.kml
            /\ run' = IF verdict = "ok" THEN run + 1 ELSE run
            /\ frame' = [frame EXCEPT ![p] =
                 IF verdict # "ok"
                 THEN [args EXCEPT !.pc = "done", !.result = "warning"]
                 ELSE [args EXCEPT !.pc = "loop", !.result = "running",
                                   !.city = CityOf(selected, custom),
                                   !.run = run + 1, !.idx = 1,
                                   !.count = START_COUNT,
                                   !.hadStale = DOMAIN kmzDir \cup DOMAIN kmlDir # {}]]

\* Lines 109-116: the next upload is written to the KMZ folder.
StoreUpload(p) ==
    LET f == frame[p] IN
    /\ f.pc = "loop"
    /\ f.idx <= Len(f.batch)
    /\ LET u == f.batch[f.idx]
       IN /\ kmzDir' = Put(kmzDir, u.filename,
                           Entry(u.kind, u.doc, u.members, f.run, f.idx))
          /\ frame' = [frame EXCEPT ![p] =
                         [f EXCEPT !.pc = "convert", !.file_path = u.filename]]
    /\ UNCHANGED <<kmlDir, run>>

\* Lines 118-124: extraction from a container, a move, or a skip.
Convert(p) ==
    LET f == frame[p]
        filename == f.batch[f.idx].filename
        kind == ConvertKind(ExtOf(filename))
        x == extract_kml_from_kmz(kmzDir, f.file_path, kmlDir)
    IN
    /\ f.pc = "convert"
    /\ kmzDir' = IF kind = "kml" /\ f.file_path \in DOMAIN kmzDir
                 THEN Remove(kmzDir, f.file_path) ELSE kmzDir
    /\ kmlDir' = IF kind = "kmz" THEN x.kml
                 ELSE IF kind = "kml" /\ f.file_path \in DOMAIN kmzDir
                 THEN Put(kmlDir, filename, kmzDir[f.file_path])
                 ELSE kmlDir
    /\ frame' = [frame EXCEPT ![p] =
         IF kind = "skip" THEN [f EXCEPT !.pc = "loop", !.idx = f.idx + 1]
         ELSE IF kind = "kmz"
         THEN IF x.raised THEN Raised(f)
              ELSE [f EXCEPT !.pc = "sanitize", !.kml_path = x.path]
         ELSE IF f.file_path \notin DOMAIN kmzDir THEN Raised(f)
              ELSE [f EXCEPT !.pc = "sanitize", !.kml_path = filename]]
    /\ UNCHANGED run

\* Line 126.
Sanitize(p) ==
    LET f == frame[p]
        x == remove_cdata_from_kml(kmlDir, f.kml_path)
    IN
    /\ f.pc = "sanitize"
    /\ kmlDir' = x.kml
    /\ frame' = [frame EXCEPT ![p] =
         IF x.raised THEN Raised(f)
         ELSE [f EXCEPT !.pc = "extract", !.cleaned_kml = x.path]]
    /\ UNCHANGED <<kmzDir, run>>

\* Lines 128-135.
Extract(p) ==
    LET f == frame[p]
        filename == f.batch[f.idx].filename
        working_street_id == WorkingStreetId(filename, f.city)
        x == extract_coordinates_from_kml(kmlDir, f.cleaned_kml, f.count,
                                          working_street_id)
    IN
    /\ f.pc = "extract"
    /\ frame' = [frame EXCEPT ![p] =
         IF x.raised THEN Raised(f)
         ELSE [f EXCEPT !.pc = "map",
                        !.count = ThreadCount(f.count, x.count),
                        !.sql_output_all = Append(@, x.out),
                        !.calls = Append(@, [src |-> f.idx, in |-> f.count,
                                             out |-> x.count])]]
    /\ UNCHANGED <<kmzDir, kmlDir, run>>

\* Lines 137-159.
ReadCoordinates(p) ==
    LET f == frame[p]
        filename == f.batch[f.idx].filename
        x == ReadForMapping(kmlDir, f.cleaned_kml, f.all_coords, f.polygons, filename)
    IN
    /\ f.pc = "map"
    /\ frame' = [frame EXCEPT ![p] =
         [f EXCEPT !.pc = "loop", !.idx = f.idx + 1,
                   !.all_coords = x.rows, !.polygons = x.polys]]
    /\ UNCHANGED <<kmzDir, kmlDir, run>>

\* Lines 161-162, reached when the loop is exhausted.
Merge(p) ==
    LET f == frame[p] IN
    /\ f.pc = "loop"
    /\ f.idx > Len(f.batch)
    /\ \E listing \in Listings(MarkupNames(kmlDir)) :
         /\ kmlDir' = merge_kml_files(kmlDir, listing, MERGED_NAME,
                                      MergeCounter(f.count), f.run)
         /\ frame' = [frame EXCEPT ![p] =
              [f EXCEPT !.pc = "bundle",
                        !.mergeCount = MergeCounter(f.count),
                        !.mergeInputs = {[name |-> n, run |-> kmlDir[n].run,
                                          src |-> kmlDir[n].src] :
                                         n \in MarkupNames(kmlDir)},
                        !.merged = kmlDir'[MERGED_NAME].doc.pms]]
    /\ UNCHANGED <<kmzDir, run>>

\* Lines 164-212: the bundle of the KML folder and the success result.
Bundle(p) ==
    LET f == frame[p] IN
    /\ f.pc = "bundle"
    /\ frame' = [frame EXCEPT ![p] =
         [f EXCEPT !.pc = "done", !.result = "success",
                   !.bundle = [n \in MarkupNames(kmlDir) |-> kmlDir[n]]]]
    /\ UNCHANGED <<kmzDir, kmlDir, run>>

\* The callback has returned (or raised) and its frame is gone.
Return(p) ==
    /\ frame[p].pc = "done"
    /\ frame' = [frame EXCEPT ![p] = NoFrame]
    /\ UNCHANGED <<kmzDir, kmlDir, run>>

Step(p, B) ==
    \/ Begin(p, B)
    \/ StoreUpload(p)
    \/ Convert(p)
    \/ Sanitize(p)
    \/ Extract(p)
    \/ ReadCoordinates(p)
    \/ Merge(p)
    \/ Bundle(p)
    \/ Return(p)

\* Invocations one after the other.
Next == Step(1, Batches)

Spec == Init /\ [][Next]_vars

\* Two invocations served by different threads of the server.
NextOverlap == \E p \in Procs : Step(p, ConcBatches)

SpecOverlap == Init /\ [][NextOverlap]_vars

\* ------------------------------------------------------------------ claims
\* An invocation that passed validation (running, finished or raised).
Accepted(f) == f.result \in {"running", "success", "error"}

\* The statements of a run so far, in emission order.
Statements(f) == Flatten(f.sql_output_all)

\* The batch positions whose extraction returned.
Processed(f) == {f.calls[k].src : k \in 1..Len(f.calls)}

\* The document an upload holds: its own, or its container's markup member.
HasMarkup(u) == u.kind = "markup" \/ FirstMarkupMember(u.members, 1) # 0
MarkupOf(u) ==
    IF u.kind = "markup" THEN u.doc ELSE u.members[FirstMarkupMember(u.members, 1)].doc

Supported(u) == ExtOf(u.filename) \in {".kmz", ".kml"}
Unparseable(u) == Supported(u) /\ HasMarkup(u) /\ ~MarkupOf(u).wf
Valid(u) == Supported(u) /\ HasMarkup(u) /\ MarkupOf(u).wf

RECURSIVE SumLen(_)
SumLen(ss) == IF ss = <<>> THEN 0 ELSE Len(Head(ss)) + SumLen(Tail(ss))

\* C1: within an accepted run the counter starts at 30000, each extraction
\* receives what the previous extraction returned, the merge receives what
\* the last extraction returned, and the identifiers issued over the batch
\* are 30000, 30001, ... without gap or repetition.
C1_CounterThreaded ==
    \A p \in Procs :
        LET f == frame[p]
            st == Statements(f)
            last == IF f.calls = <<>> THEN 30000 ELSE f.calls[Len(f.calls)].out
        IN Accepted(f) =>
             /\ \A k \in 1..Len(f.calls) :
                    f.calls[k].in = IF k = 1 THEN 30000 ELSE f.calls[k - 1].out
             /\ f.count = last
             /\ f.mergeCount # -1 => f.mergeCount = last
             /\ \A k \in 1..Len(st) : st[k].id = 30000 + k - 1
             /\ last = 30000 + Len(st)

\* C1 witness: a finished run of two files that both emitted statements.
C1_Witness ==
    \E p \in Procs :
        LET f == frame[p]
        IN /\ f.result = "success"
           /\ Len(f.calls) = 2
           /\ f.calls[1].out > f.calls[1].in
           /\ f.calls[2].out > f.calls[2].in
           /\ f.mergeCount = 30000 + Len(Statements(f))

\* C2: a file that fails in archive extraction or in sanitization does not
\* abort the batch: the run still ends with the success result, having
\* processed every valid file of the batch and run the merge.
C2_FailuresIsolated ==
    \A p \in Procs :
        LET f == frame[p]
        IN (f.pc = "done" /\ Accepted(f)) =>
             /\ f.result = "success"
             /\ f.mergeCount # -1
             /\ \A i \in 1..Len(f.batch) : Valid(f.batch[i]) => i \in Processed(f)

\* C3: an invocation with no upload, or with uploads but neither a selected
\* city nor a custom name, returns the warning and touches neither folder;
\* it extracts nothing and merges nothing.
C3_RejectedRunChangesNothing ==
    [][\A p \in Procs :
          (/\ frame[p].pc = "idle"
           /\ frame'[p].pc # "idle"
           /\ \/ frame'[p].batch = <<>>
              \/ ~Truthy(frame'[p].selected) /\ ~Truthy(frame'[p].custom))
          => /\ frame'[p].pc = "done"
             /\ frame'[p].result = "warning"
             /\ kmzDir' = kmzDir
             /\ kmlDir' = kmlDir
             /\ frame'[p].calls = <<>>
             /\ frame'[p].mergeCount = -1]_vars

\* C3 witness: a rejected invocation with uploads and no city, while both
\* folders hold files of an earlier run.
C3_Witness ==
    \E p \in Procs :
        /\ frame[p].pc = "done"
        /\ frame[p].result = "warning"
        /\ frame[p].batch # <<>>
        /\ ~Truthy(frame[p].selected) /\ ~Truthy(frame[p].custom)
        /\ DOMAIN kmzDir # {}
        /\ DOMAIN kmlDir # {}

\* C4: at the end of an accepted run the merged document holds as many
\* placemarks as the processed files of the batch hold together.
C4_MergedHoldsEveryProcessedFile ==
    \A p \in Procs :
        LET f == frame[p]
        IN f.result = "success" =>
             Len(f.merged) =
               SumLen([k \in 1..Len(f.calls) |-> MarkupOf(f.batch[f.calls[k].src]).pms])

\* C5: a file whose markup cannot be parsed is excluded from the rest of the
\* run: it emits no statement, it is not in the KML folder that the merge
\* enumerates, and the merge does not read it.
C5_FailedFilesExcluded ==
    \A p \in Procs :
        LET f == frame[p]
        IN (f.pc = "done" /\ Accepted(f)) =>
             \A i \in 1..Len(f.batch) :
                 Unparseable(f.batch[i]) =>
                   /\ i \notin Processed(f)
                   /\ \A n \in DOMAIN kmlDir :
                          ~(kmlDir[n].run = f.run /\ kmlDir[n].src = i)
                   /\ \A m \in f.mergeInputs : ~(m.run = f.run /\ m.src = i)

\* C6: in runs that follow one another, both folders are empty when a run
\* is about to write its first file, every file in either folder while a
\* run is under way was written by that run, and so was every file its
\* merge read and every file in its bundle.
C6_RunReadsOnlyItsOwnFiles ==
    \A p \in Procs :
        LET f == frame[p]
        IN Accepted(f) =>
             /\ (f.pc = "loop" /\ f.idx = 1) =>
                    (DOMAIN kmzDir = {} /\ DOMAIN kmlDir = {})
             /\ \A n \in DOMAIN kmzDir : kmzDir[n].run = f.run
             /\ \A n \in DOMAIN kmlDir : kmlDir[n].run = f.run
             /\ \A m \in f.mergeInputs : m.run = f.run
             /\ \A n \in DOMAIN f.bundle : f.bundle[n].run = f.run

\* C6 witness: a second run that found files of the first, then merged and
\* bundled files of its own.
C6_Witness ==
    \E p \in Procs :
        LET f == frame[p]
        IN /\ f.result = "success"
           /\ f.run = 2
           /\ f.hadStale
           /\ f.mergeInputs # {}
           /\ MERGED_NAME \in DOMAIN f.bundle

\* C7: when two invocations overlap, the file an invocation is working on
\* is still the one it wrote (neither deleted nor overwritten by the other),
\* its merge and its bundle hold only its own files, and its counter is its
\* own.
C7_InvocationsIsolated ==
    \A p \in Procs :
        LET f == frame[p]
            own(dir, n) == n \in DOMAIN dir /\ dir[n].run = f.run
        IN Accepted(f) =>
             /\ f.pc = "convert" => own(kmzDir, f.file_path)
             /\ f.pc = "sanitize" => own(kmlDir, f.kml_path)
             /\ f.pc \in {"extract", "map"} => own(kmlDir, f.cleaned_kml)
             /\ \A m \in f.mergeInputs : m.run = f.run
             /\ \A n \in DOMAIN f.bundle : f.bundle[n].run = f.run
             /\ f.count = 30000 + Len(Statements(f))

\* The statements of a sequence of valid uploads processed from counter c.
RECURSIVE ExpectedSql(_, _, _)
ExpectedSql(us, c, city) ==
    IF us = <<>> THEN <<>>
    ELSE LET u == Head(us)
             ts == TuplesOf(MarkupOf(u))
             out == [k \in 1..Len(ts) |->
                       [id |-> c + k - 1, key |-> WorkingStreetId(u.filename, city),
                        lon |-> ts[k].lon, lat |-> ts[k].lat]]
         IN <<out>> \o ExpectedSql(Tail(us), c + Len(ts), city)

\* C8: the step that meets an upload whose extension is neither .kmz nor
\* .kml moves on to the next upload and changes neither the counter, the
\* statements, the KML folder, the table rows nor the polygons; and a
\* finished run's statements are those of the batch without such uploads.
C8_UnsupportedExtensionSkipped ==
    /\ [][\A p \in Procs :
            LET f == frame[p]
                g == frame'[p]
            IN (/\ f.pc = "convert"
                /\ g # f
                /\ ExtOf(f.batch[f.idx].filename) \notin {".kmz", ".kml"})
               => /\ g.pc = "loop"
                  /\ g.idx = f.idx + 1
                  /\ g.result = f.result
                  /\ g.count = f.count
                  /\ g.sql_output_all = f.sql_output_all
                  /\ g.calls = f.calls
                  /\ g.all_coords = f.all_coords
                  /\ g.polygons = f.polygons
                  /\ kmlDir' = kmlDir]_vars
    /\ [](\A p \in Procs :
            frame[p].result = "success" =>
              frame[p].sql_output_all =
                ExpectedSql(SelectSeq(frame[p].batch, Supported), 30000, frame[p].city))

\* C8 witness: a finished run whose first upload was skipped for its
\* extension and whose second upload emitted statements from 30000 on.
C8_Witness ==
    \E p \in Procs :
        LET f == frame[p]
        IN /\ f.result = "success"
           /\ Len(f.batch) = 2
           /\ ExtOf(f.batch[1].filename) = ".txt"
           /\ Len(f.calls) = 1
           /\ f.calls[1].src = 2
           /\ f.calls[1].in = 30000
           /\ f.calls[1].out > 30000
           /\ DOMAIN kmlDir = {f.batch[2].filename, MERGED_NAME}

\* C9: with at least one upload, the run is rejected only when neither a
\* city nor a custom name is given; with a city selected it is accepted
\* whatever the custom field holds, and the key of a file without UUID is the
\* custom name when that is not blank, else the selected city, with spaces
\* replaced by underscores.
C9_SelectedCityAccepted ==
    \A p \in Procs :
        LET f == frame[p]
            blank == ~f.custom.some \/ Strip(f.custom.s) = <<>>
            fallback == ReplaceSpaces(IF blank THEN f.selected.s ELSE Strip(f.custom.s))
        IN (f.pc # "idle" /\ f.batch # <<>>) =>
             /\ f.result = "warning" => (~f.selected.some /\ blank)
             /\ f.selected.some => f.result # "warning"
             /\ \A k \in 1..Len(f.calls) :
                    UuidMatch(f.batch[f.calls[k].src].filename) = NoUuid =>
                      \A j \in 1..Len(f.sql_output_all[k]) :
                          f.sql_output_all[k][j].key = fallback

\* C10: at the end of an accepted run the coordinate table has one row per
\* statement, final counter minus 30000 in all, each row carrying the
\* longitude and latitude of the statement at its position.
C10_TableAgreesWithStatements ==
    \A p \in Procs :
        LET f == frame[p]
            st == Statements(f)
        IN f.result = "success" =>
             /\ Len(f.all_coords) = f.count - 30000
             /\ \A k \in 1..Len(f.all_coords) :
                    /\ k <= Len(st)
                    /\ f.all_coords[k].lon = st[k].lon
                    /\ f.all_coords[k].lat = st[k].lat

====
